---- MODULE Spec2Model ----
(***************************************************************************)
(* Model of src/handler.py: the RunPod serverless handler that patches a   *)
(* ComfyUI workflow graph, submits it over HTTP, polls /history until the  *)
(* job ends and returns the produced video.                                *)
(*                                                                         *)
(* Five specifications share the variables:                                *)
(*   Spec / FairSpec  one execution of handler(job), one action per step   *)
(*   SpecPatch        modify_workflow_* applied once and twice             *)
(*   SpecVideo        get_output_video applied to a status payload and an  *)
(*                    output directory tree                                *)
(*   SeqSpec          handler called for one job after another             *)
(*   ConcSpec         two executions of handler interleaved                *)
(***************************************************************************)
EXTENDS Integers, Sequences, FiniteSets, TLC

VARIABLES
    pc,               \* position of the handler (or of the pure-function harness)
    job,              \* job["input"]: the request mapping
    params,           \* handler's params dict (params["seed"] is mutated by the patch)
    waited,           \* time.time() - start_time of the polling loop in progress
    healthOK,         \* a GET /system_stats of this job returned 200
    httpCalls,        \* kinds of HTTP request issued by this job
    posts,            \* number of POST /prompt issued by this job
    inputDir,         \* /comfyui/input: file name -> bytes
    audio_duration,   \* handler's audio_duration local
    template,         \* the graph as loaded by load_workflow
    workflow,         \* the graph after modify_workflow_*
    workflow2,        \* the graph after a second modify_workflow_* (SpecPatch)
    postOutcome,      \* what POST /prompt did
    prompt_id,        \* value returned by queue_prompt
    errorSeen,        \* shape of the last history entry with status_str == "error"
    polledAfterError, \* a GET /history was issued after such an entry was read
    outputs,          \* value returned by wait_for_completion
    outputDir,        \* /comfyui/output: set of files [dir, name]
    walkOrder,        \* order in which os.walk yields the directories
    video_data,       \* value returned by get_output_video
    result,           \* the mapping handler returns
    workflow_path,    \* the file load_workflow opened
    postedImage,      \* bytes of input_image.png when this job issued its POST
    other,            \* the locals of the handler execution that is not running
    cur,              \* which execution is running: "A" or "B"
    switches          \* number of switches between the two executions so far

vars == <<pc, job, params, waited, healthOK, httpCalls, posts, inputDir,
          audio_duration, template, workflow, workflow2, postOutcome,
          prompt_id, errorSeen, polledAfterError, outputs, outputDir,
          walkOrder, video_data, result, workflow_path, postedImage, other,
          cur, switches>>

----------------------------------------------------------------------------
(* Python values.  An optional value (a dict key that may be absent, or a  *)
(* value that may be None) is the empty tuple or a one-element tuple.      *)

None == <<>>
Some(v) == <<v>>
Get(opt, default) == IF opt = None THEN default ELSE opt[1]

\* float(x): the float with the value of x, printed "25.0" where the int prints "25"
Float(x) == <<"float", x>>

\* base64.b64encode / base64.b64decode
B64Encode(bytes) == <<"b64", bytes>>
B64Decode(text) == text[2]

\* a data URL "data:...;base64,<text>" and
\* if "base64," in data: data = data.split("base64,")[1]
DataUrl(text) == <<"data-url", text>>
StripDataUrl(data) == IF data[1] = "data-url" THEN data[2] ELSE data

----------------------------------------------------------------------------
(* Bounds of the model.                                                    *)

MaxTimeout == 2       \* explicit "timeout" values of a request: 0..MaxTimeout
MaxAbsent == 1        \* nodes of the patch table a template may lack
MaxFiles == 3         \* files in the output directory tree (SpecVideo)
MaxSwitches == 2      \* switches between two concurrent executions (ConcSpec)

----------------------------------------------------------------------------
(* Configuration (handler.py, CONFIGURATION).  cfg and i2v strengths are   *)
(* in tenths: 40 is 4.0, 7 is 0.7.                                         *)

DEFAULT_PARAMS ==
    [width |-> 720, height |-> 720, frame_count |-> 97, steps |-> 20,
     cfg |-> 40, fps |-> 25, seed |-> None, timeout |-> 600,
     img_compression |-> 33, i2v_strength_first |-> 10,
     i2v_strength_second |-> 7]

DEFAULT_NEGATIVE_PROMPT == "static, frozen, ..."

\* random.randint(0, 2**31 - 1): the draws the model follows
SeedMax == 2147483647
RandSeeds == {7, SeedMax}

----------------------------------------------------------------------------
(* Requests.  Every field is optional in the mapping; the numeric fields   *)
(* other than seed and timeout are left to their defaults.  A seed that is *)
(* absent and a seed that is null both read as None (job_input.get).       *)

Images == {B64Encode("imgA"), DataUrl(B64Encode("imgB"))}
Prompts == {"a cat"}
Audios == {B64Encode(""), B64Encode("audA")}   \* "" is the encoding of no bytes
Seeds == {-1, 0, 42}

Jobs ==
    [image : {None} \cup {Some(i) : i \in Images},
     prompt : {None} \cup {Some(p) : p \in Prompts},
     audio : {None} \cup {Some(a) : a \in Audios},
     seed : {None} \cup {Some(s) : s \in Seeds},
     timeout : {None} \cup {Some(t) : t \in 0..MaxTimeout}]

ValidJobs == {j \in Jobs : j.image # None /\ j.prompt # None}

\* has_custom_audio without the truth test: "audio" in job_input
HasAudioKey(job_input) == job_input.audio # None

\* handler: has_custom_audio = "audio" in job_input and job_input["audio"]
has_custom_audio(job_input) ==
    job_input.audio # None /\ job_input.audio[1] # B64Encode("")

\* handler: mode = "custom_audio" if has_custom_audio else "generated_audio"
Mode(job_input) ==
    IF has_custom_audio(job_input) THEN "custom_audio" ELSE "generated_audio"

\* handler: params = {...}, every optional field resolved from the defaults
BuildParams(job_input) ==
    [image |-> job_input.image[1],
     prompt |-> job_input.prompt[1],
     negative_prompt |-> DEFAULT_NEGATIVE_PROMPT,
     width |-> DEFAULT_PARAMS.width,
     height |-> DEFAULT_PARAMS.height,
     frame_count |-> DEFAULT_PARAMS.frame_count,
     steps |-> DEFAULT_PARAMS.steps,
     cfg |-> DEFAULT_PARAMS.cfg,
     fps |-> DEFAULT_PARAMS.fps,
     seed |-> IF job_input.seed = None THEN DEFAULT_PARAMS.seed ELSE job_input.seed,
     timeout |-> Get(job_input.timeout, DEFAULT_PARAMS.timeout),
     i2v_strength_second |-> DEFAULT_PARAMS.i2v_strength_second]

NoParams ==
    [image |-> B64Encode(""), prompt |-> "", negative_prompt |-> "",
     width |-> 0, height |-> 0, frame_count |-> 0, steps |-> 0, cfg |-> 0,
     fps |-> 0, seed |-> None, timeout |-> 0, i2v_strength_second |-> 0]

----------------------------------------------------------------------------
(* Workflow graphs: node id -> [class_type, inputs], inputs: key -> value. *)

SeedNodes == {"92:11", "92:67"}

\* the (node, key) pairs written by modify_workflow_generated_audio
PatchTableGenerated ==
    {<<"98", "image">>, <<"92:3", "text">>, <<"92:4", "text">>,
     <<"92:11", "noise_seed">>, <<"92:67", "noise_seed">>,
     <<"92:62", "value">>, <<"92:9", "steps">>, <<"92:47", "cfg">>,
     <<"92:22", "frame_rate">>, <<"92:51", "frame_rate">>,
     <<"92:97", "fps">>}

\* the (node, key) pairs written by modify_workflow_custom_audio
PatchTableCustom ==
    {<<"98", "image">>, <<"92:3", "text">>, <<"92:4", "text">>,
     <<"92:11", "noise_seed">>, <<"92:67", "noise_seed">>,
     <<"92:9", "steps">>, <<"92:47", "cfg">>, <<"92:114", "audio">>,
     <<"92:115", "value">>, <<"92:97", "fps">>, <<"92:108", "strength">>}

PatchTable(m) ==
    IF m = "custom_audio" THEN PatchTableCustom ELSE PatchTableGenerated

PatchNodes == {e[1] : e \in PatchTableGenerated \cup PatchTableCustom}

\* a node no patch touches
OtherNode == "92:1"

\* the value a template holds under a key before it is patched
TemplateValue(n, k) ==
    IF k \in {"image", "text", "audio"} THEN "template"
    ELSE IF n = "92:115" THEN Float(24)
    ELSE 1

\* a template node: with its patched keys already present (keyed) or not,
\* and always with one input no patch writes
TemplateNode(n, keyed) ==
    [class_type |-> "Node",
     inputs |->
        [k \in {"untouched"} \cup
               (IF keyed
                   THEN {e[2] : e \in {x \in PatchTableGenerated \cup PatchTableCustom :
                                           x[1] = n}}
                   ELSE {})
           |-> IF k = "untouched" THEN "keep" ELSE TemplateValue(n, k)]]

\* the templates load_workflow may find: all nodes of the patch tables but a
\* few, plus a node outside them
Templates ==
    {[n \in (PatchNodes \ absent) \cup {OtherNode} |-> TemplateNode(n, keyed)] :
        absent \in {a \in SUBSET PatchNodes : Cardinality(a) <= MaxAbsent},
        keyed \in BOOLEAN}

NoWorkflow == [n \in {} |-> [class_type |-> "Node", inputs |-> <<>>]]

\* SetInput without the membership test: the node is created when missing
SetInputCreating(wf, node, key, value) ==
    IF node \in DOMAIN wf
        THEN [wf EXCEPT ![node].inputs = (key :> value) @@ @]
        ELSE (node :> [class_type |-> "Node", inputs |-> (key :> value)]) @@ wf

\* if node in workflow: workflow[node]["inputs"][key] = value
SetInput(wf, node, key, value) ==
    IF node \in DOMAIN wf
        THEN [wf EXCEPT ![node].inputs = (key :> value) @@ @]
        ELSE wf

\* the seed handling at the head of both modify_workflow_* functions:
\* seed = params.get("seed"); a None or -1 seed is drawn and stored in params
SeedIsRandom(p) == p.seed = None \/ p.seed = Some(-1)
ResolveSeed(p, rnd) == IF SeedIsRandom(p) THEN rnd ELSE p.seed[1]
\* StoreSeed without params["seed"] = seed
StoreSeedForgotten(p, rnd) == p

StoreSeed(p, rnd) ==
    IF SeedIsRandom(p) THEN [p EXCEPT !.seed = Some(rnd)] ELSE p

\* SetSeedNodes with the loop cut to its first node
SetSeedNodesFirstOnly(wf, seed) == SetInput(wf, "92:11", "noise_seed", seed)

\* for node_id in ["92:11", "92:67"]: ... ["noise_seed"] = seed
SetSeedNodes(wf, seed) ==
    SetInput(SetInput(wf, "92:11", "noise_seed", seed), "92:67", "noise_seed", seed)

modify_workflow_generated_audio(wf, p, rnd) ==
    LET seed == ResolveSeed(p, rnd)
        p1 == StoreSeed(p, rnd)
        w1 == SetInput(wf, "98", "image", "input_image.png")
        w2 == SetInput(w1, "92:3", "text", p1.prompt)
        w3 == SetInput(w2, "92:4", "text", p1.negative_prompt)
        w4 == SetSeedNodes(w3, seed)
        w5 == SetInput(w4, "92:62", "value", p1.frame_count)
        w6 == SetInput(w5, "92:9", "steps", p1.steps)
        w7 == SetInput(w6, "92:47", "cfg", p1.cfg)
        w8 == SetInput(w7, "92:22", "frame_rate", p1.fps)
        w9 == SetInput(w8, "92:51", "frame_rate", p1.fps)
        w10 == SetInput(w9, "92:97", "fps", p1.fps)
    IN  [workflow |-> w10, params |-> p1]

\* (audio_duration only feeds the frame count that is logged, line 289-290)
modify_workflow_custom_audio(wf, p, duration, rnd) ==
    LET seed == ResolveSeed(p, rnd)
        p1 == StoreSeed(p, rnd)
        fps == p1.fps
        w1 == SetInput(wf, "98", "image", "input_image.png")
        w2 == SetInput(w1, "92:3", "text", p1.prompt)
        w3 == SetInput(w2, "92:4", "text", p1.negative_prompt)
        w4 == SetSeedNodes(w3, seed)
        w5 == SetInput(w4, "92:9", "steps", p1.steps)
        w6 == SetInput(w5, "92:47", "cfg", p1.cfg)
        w7 == SetInput(w6, "92:114", "audio", "input_audio.mp3")
        w8 == SetInput(w7, "92:115", "value", Float(fps))
        w9 == SetInput(w8, "92:97", "fps", fps)
        w10 == SetInput(w9, "92:108", "strength", p1.i2v_strength_second)
    IN  [workflow |-> w10, params |-> p1]

\* handler: the patch of the mode's workflow
ModifyWorkflow(m, wf, p, duration, rnd) ==
    IF m = "custom_audio"
        THEN modify_workflow_custom_audio(wf, p, duration, rnd)
        ELSE modify_workflow_generated_audio(wf, p, rnd)

----------------------------------------------------------------------------
(* The mapping handler returns: its keys, and the values the claims read.  *)

NoResult == [keys |-> {}, error |-> "", seed |-> None, mode |-> "", video |-> None]

ErrMissingImage == "Missing required field: image"
ErrMissingPrompt == "Missing required field: prompt"
ErrUnavailable == "ComfyUI server not available"
ErrNoVideo == "No video output generated"
ErrTimeout == "Generation timed out after N seconds"
ErrWorkflow == "Workflow error: M"

\* return {"error": msg}
ErrorResult(msg) == [NoResult EXCEPT !.keys = {"error"}, !.error = msg]

\* except Exception as e: return {"error": str(e), "traceback": ..., "elapsed_time": ...}
ExceptionResult(msg) ==
    [NoResult EXCEPT !.keys = {"error", "traceback", "elapsed_time"}, !.error = msg]

\* result = {"video": ..., "seed": params["seed"], "mode": mode, ...}
SuccessResult(video, p, m, duration) ==
    [keys |-> {"video", "seed", "mode", "parameters", "elapsed_time"} \cup
              (IF duration # None /\ duration # Some(0) THEN {"audio_duration"} ELSE {}),
     error |-> "", seed |-> p.seed, mode |-> m, video |-> video]

----------------------------------------------------------------------------
(* SpecPatch: the patch applied to a loaded template, then applied again   *)
(* to its own result with the same params object.                          *)

\* save_input_audio: the duration ffprobe reports, in tenths of a second;
\* 40 (4.0 s) is also the fallback when ffprobe fails
AudioDurations == {0, 25, 40}

\* the locals of a handler execution, as kept while the other one runs
Locals(p, j, ps, w, h, calls, n, dur, t, path, wf, po, id, img, es, pae, outs, order, video, res) ==
    [pc |-> p, job |-> j, params |-> ps, waited |-> w, healthOK |-> h,
     httpCalls |-> calls, posts |-> n, audio_duration |-> dur, template |-> t,
     workflow_path |-> path, workflow |-> wf, postOutcome |-> po,
     prompt_id |-> id, postedImage |-> img, errorSeen |-> es,
     polledAfterError |-> pae, outputs |-> outs, walkOrder |-> order,
     video_data |-> video, result |-> res]

\* the locals of an execution at the entry of handler(job)
EntryLocals(j) ==
    Locals("validate", j, NoParams, 0, FALSE, {}, 0, None, NoWorkflow, "",
           NoWorkflow, "none", "unset", None, "no", FALSE, <<>>, <<>>, None,
           NoResult)

NoJob == [image |-> None, prompt |-> None, audio |-> None, seed |-> None,
          timeout |-> None]

\* no second execution
NoOther == EntryLocals(NoJob)

HandlerIdle ==
    /\ waited = 0
    /\ healthOK = FALSE
    /\ httpCalls = {}
    /\ posts = 0
    /\ inputDir = {}
    /\ postOutcome = "none"
    /\ prompt_id = "unset"
    /\ errorSeen = "no"
    /\ polledAfterError = FALSE
    /\ result = NoResult
    /\ workflow_path = ""
    /\ postedImage = None
    /\ other = NoOther
    /\ cur = "A"
    /\ switches = 0

InitPatch ==
    /\ pc = "patch0"
    /\ job \in {j \in ValidJobs : j.timeout = None}
    /\ params = BuildParams(job)
    /\ template \in Templates
    /\ workflow = NoWorkflow
    /\ workflow2 = NoWorkflow
    /\ audio_duration \in
          IF has_custom_audio(job) THEN {Some(d) : d \in AudioDurations} ELSE {None}
    /\ outputs = <<>>
    /\ outputDir = {}
    /\ walkOrder = <<>>
    /\ video_data = None
    /\ HandlerIdle

PatchFrame ==
    UNCHANGED <<other, cur, switches, job, waited, healthOK, httpCalls, posts, inputDir, audio_duration,
                template, workflow_path, postOutcome, prompt_id, postedImage, errorSeen, polledAfterError,
                outputs, outputDir, walkOrder, video_data, result>>

\* workflow = modify_workflow_*(load_workflow(...), params, ...)
PatchOnce ==
    /\ pc = "patch0"
    /\ \E rnd \in RandSeeds :
          LET r == ModifyWorkflow(Mode(job), template, params,
                                  Get(audio_duration, 0), rnd)
          IN  /\ workflow' = r.workflow
              /\ params' = r.params
    /\ pc' = "patch1"
    /\ UNCHANGED workflow2
    /\ PatchFrame

\* modify_workflow_*(workflow, params, ...) on the patched graph, same params
PatchTwice ==
    /\ pc = "patch1"
    /\ \E rnd \in RandSeeds :
          LET r == ModifyWorkflow(Mode(job), workflow, params,
                                  Get(audio_duration, 0), rnd)
          IN  /\ workflow2' = r.workflow
              /\ params' = r.params
    /\ pc' = "patch2"
    /\ UNCHANGED workflow
    /\ PatchFrame

NextPatch == PatchOnce \/ PatchTwice

SpecPatch == InitPatch /\ [][NextPatch]_vars

\* C8: the patch is idempotent: applying modify_workflow_generated_audio
\* (resp. modify_workflow_custom_audio) a second time, with the same params
\* object, to the already patched graph yields the graph of the first
\* application, also when the seed was absent or -1.
Thm_C8_PatchIdempotent ==
    pc = "patch2" => workflow2 = workflow

\* a second application has run on a graph whose seed nodes hold a drawn seed
Wit_C8_PatchIdempotent ==
    /\ pc = "patch2"
    /\ SeedIsRandom(BuildParams(job))
    /\ SeedNodes \subseteq DOMAIN workflow
    /\ workflow # template

\* C9: patching never adds a node and never fails on an absent node id: the
\* patched graph has exactly the node ids of the template, an entry whose
\* node is missing is skipped, and every node and every input key outside
\* the patch table keeps its template value.
Thm_C9_PatchFrame ==
    pc \in {"patch1", "patch2"} =>
        /\ DOMAIN workflow = DOMAIN template
        /\ \A n \in DOMAIN template :
              /\ workflow[n].class_type = template[n].class_type
              /\ DOMAIN workflow[n].inputs \subseteq
                    DOMAIN template[n].inputs \cup
                        {e[2] : e \in {x \in PatchTable(Mode(job)) : x[1] = n}}
              /\ \A k \in DOMAIN template[n].inputs :
                    <<n, k>> \notin PatchTable(Mode(job)) =>
                        workflow[n].inputs[k] = template[n].inputs[k]

\* a patch has run on a template that lacks a node of the mode's patch table
Wit_C9_PatchFrame ==
    /\ pc = "patch1"
    /\ \E e \in PatchTable(Mode(job)) : e[1] \notin DOMAIN template
    /\ workflow # template

----------------------------------------------------------------------------
(* get_output_video.  A file name is the tuple of its code points, which   *)
(* is what sorted() and str.endswith compare.  A file of the output tree   *)
(* is [dir, name, by]: its directory below /comfyui/output ("" is the      *)
(* directory itself), its name and who wrote it; the record stands for the *)
(* file's bytes too.                                                       *)

Ext_mp4 == <<46, 109, 112, 52>>
Ext_webm == <<46, 119, 101, 98, 109>>
Ext_gif == <<46, 103, 105, 102>>
Ext_avi == <<46, 97, 118, 105>>
Ext_mov == <<46, 109, 111, 118>>

\* file.endswith(('.mp4', '.webm', '.gif', '.avi', '.mov'))
VideoExts == {Ext_mp4, Ext_webm, Ext_gif, Ext_avi, Ext_mov}

EndsWith(name, suffix) ==
    /\ Len(name) >= Len(suffix)
    /\ SubSeq(name, Len(name) - Len(suffix) + 1, Len(name)) = suffix

IsVideo(name) == \E e \in VideoExts : EndsWith(name, e)

\* str < str: by code point, a proper prefix first
RECURSIVE LexLess(_, _)
LexLess(a, b) ==
    IF a = <<>> THEN b # <<>>
    ELSE IF b = <<>> THEN FALSE
    ELSE IF a[1] # b[1] THEN a[1] < b[1]
    ELSE LexLess(Tail(a), Tail(b))

\* sorted(files): ascending
RECURSIVE SortedAscending(_)
SortedAscending(names) ==
    IF names = {} THEN <<>>
    ELSE LET least == CHOOSE n \in names : \A m \in names : ~LexLess(m, n)
         IN  <<least>> \o SortedAscending(names \ {least})

\* sorted(files, reverse=True)
RECURSIVE SortedReverse(_)
SortedReverse(names) ==
    IF names = {} THEN <<>>
    ELSE LET greatest == CHOOSE n \in names : \A m \in names : ~LexLess(n, m)
         IN  <<greatest>> \o SortedReverse(names \ {greatest})

\* for key in ["gifs", "videos", "video", "images", "files"]
KeyOrder == <<"gifs", "videos", "video", "images", "files">>

\* the items of one node_output, in the order the loops visit them
NodeItems(node_output) ==
    LET at(i) == IF KeyOrder[i] \in DOMAIN node_output
                    THEN node_output[KeyOrder[i]] ELSE <<>>
    IN  at(1) \o at(2) \o at(3) \o at(4) \o at(5)

\* for node_id, node_output in outputs.items(): the items of all nodes
RECURSIVE AllItems(_)
AllItems(outs) ==
    IF outs = <<>> THEN <<>> ELSE NodeItems(Head(outs)) \o AllItems(Tail(outs))

\* an item of the payload: a dict with optional filename and subfolder, a
\* str, or something else
DictItem(filename, subfolder) ==
    [kind |-> "dict", filename |-> filename, subfolder |-> subfolder]
StrItem(filename) == [kind |-> "str", filename |-> Some(filename), subfolder |-> ""]
OtherItem == [kind |-> "other", filename |-> None, subfolder |-> ""]

\* the path an item names, None when the item is skipped (lines 435-450)
ItemPath(item) ==
    IF item.kind = "other" \/ item.filename = None THEN None
    ELSE IF item.filename[1] = <<>> THEN None
    ELSE Some([dir |-> IF item.kind = "dict" THEN item.subfolder ELSE "",
               name |-> item.filename[1]])

\* os.path.exists(filepath) / open(filepath)
FilesAt(fs, path) == {f \in fs : f.dir = path.dir /\ f.name = path.name}

\* the first reported item whose path exists (lines 425-463)
RECURSIVE FirstReported(_, _)
FirstReported(items, fs) ==
    IF items = <<>> THEN None
    ELSE LET path == ItemPath(Head(items))
         IN  IF path # None /\ FilesAt(fs, path[1]) # {}
                THEN Some(CHOOSE f \in FilesAt(fs, path[1]) : TRUE)
                ELSE FirstReported(Tail(items), fs)

\* for root, dirs, files in os.walk(output_dir): the first directory, in
\* the order of the walk, with a video file; there the first of
\* sorted(files, reverse=True) (lines 475-485)
RECURSIVE ScanWalk(_, _)
ScanWalk(order, fs) ==
    IF order = <<>> THEN None
    ELSE LET root == Head(order)
             files == SortedReverse({f.name : f \in {g \in fs : g.dir = root}})
             videos == SelectSeq(files, IsVideo)
         IN  IF videos # <<>>
                THEN Some(CHOOSE f \in fs : f.dir = root /\ f.name = videos[1])
                ELSE ScanWalk(Tail(order), fs)

get_output_video(outs, fs, order) ==
    LET reported == FirstReported(AllItems(outs), fs)
        scanned == ScanWalk(order, fs)
    IN  IF reported # None THEN Some(B64Encode(reported[1]))
        ELSE IF scanned # None THEN Some(B64Encode(scanned[1]))
        ELSE None

----------------------------------------------------------------------------
(* SpecVideo: get_output_video on a status payload and an output tree.     *)

Name_a_mp4 == <<97, 46, 109, 112, 52>>
Name_b_mp4 == <<98, 46, 109, 112, 52>>
Name_a_webm == <<97, 46, 119, 101, 98, 109>>
Name_c_png == <<99, 46, 112, 110, 103>>
FileNames == {Name_a_mp4, Name_b_mp4, Name_a_webm, Name_c_png}

\* /comfyui/output and two subdirectories; os.walk is top-down, so the
\* directory itself comes first, its subdirectories in the order of scandir
WalkOrders == {<<"", "x", "y">>, <<"", "y", "x">>}
Dirs == {"", "x", "y"}

OutputTrees ==
    {fs \in SUBSET [dir : Dirs, name : FileNames, by : {"server"}] :
        Cardinality(fs) <= MaxFiles}

\* status payloads: none, one reported video in a subfolder, and two nodes
\* mixing str items, a dict without filename and an item of another type
VideoOutputs ==
    {<<>>,
     <<[videos |-> <<DictItem(Some(Name_b_mp4), "x")>>]>>,
     <<[images |-> <<StrItem(Name_a_mp4)>>,
        gifs |-> <<DictItem(None, ""), OtherItem>>],
       [files |-> <<DictItem(Some(Name_a_webm), "y")>>]>>}

InitVideo ==
    /\ pc = "video0"
    /\ outputs \in VideoOutputs
    /\ outputDir \in OutputTrees
    /\ walkOrder \in WalkOrders
    /\ video_data = None
    /\ job = NoJob
    /\ params = NoParams
    /\ template = NoWorkflow
    /\ workflow = NoWorkflow
    /\ workflow2 = NoWorkflow
    /\ audio_duration = None
    /\ HandlerIdle

\* video_data = get_output_video(outputs)
GetVideo ==
    /\ pc = "video0"
    /\ video_data' = get_output_video(outputs, outputDir, walkOrder)
    /\ pc' = "video1"
    /\ UNCHANGED <<other, cur, switches, job, params, waited, healthOK, httpCalls, posts, inputDir,
                   audio_duration, template, workflow_path, workflow, workflow2, postOutcome,
                   prompt_id, postedImage, errorSeen, polledAfterError, outputs, outputDir,
                   walkOrder, result>>

NextVideo == GetVideo

SpecVideo == InitVideo /\ [][NextVideo]_vars

VideoFiles == {f \in outputDir : IsVideo(f.name)}
NoReportedPathExists == FirstReported(AllItems(outputs), outputDir) = None
WalkPos(d) == CHOOSE i \in 1..Len(walkOrder) : walkOrder[i] = d

\* C10 as stated: when no reported path exists on disk, get_output_video
\* returns the content of the file with the lexicographically greatest
\* filename among all video files of the scanned output directory tree.
Orig_C10_GreatestInTree ==
    (pc = "video1" /\ NoReportedPathExists /\ VideoFiles # {}) =>
        \E f \in VideoFiles :
            /\ video_data = Some(B64Encode(f))
            /\ \A g \in VideoFiles : ~LexLess(f.name, g.name)

\* C10 as amended: when no reported path exists on disk, get_output_video
\* returns the content of the file with the greatest filename among the
\* video files of the first directory, in the top-down order of os.walk,
\* that holds a video file.
Thm_C10_GreatestInFirstDir ==
    (pc = "video1" /\ NoReportedPathExists /\ VideoFiles # {}) =>
        \E f \in VideoFiles :
            /\ video_data = Some(B64Encode(f))
            /\ \A g \in VideoFiles : WalkPos(f.dir) <= WalkPos(g.dir)
            /\ \A g \in VideoFiles : g.dir = f.dir => ~LexLess(f.name, g.name)

\* the scan has chosen among two video files of one directory while another
\* directory holds a video file too
Wit_C10_GreatestInFirstDir ==
    /\ pc = "video1"
    /\ NoReportedPathExists
    /\ outputs # <<>>
    /\ \E f, g, h \in VideoFiles :
          /\ f.dir = g.dir /\ f.name # g.name /\ h.dir # f.dir
          /\ video_data = Some(B64Encode(f))

----------------------------------------------------------------------------
(* Spec: one execution of handler(job).  Time is in whole seconds; waited  *)
(* is time.time() - start_time of the polling loop in progress.            *)

HealthTimeout == 120      \* wait_for_comfyui(timeout=120)
HealthReqTimeout == 5     \* urlopen(.../system_stats, timeout=5)
HealthSleep == 2          \* time.sleep(2)
PollReqTimeout == 10      \* urlopen(.../history/..., timeout=10)
PollSleep == 1            \* time.sleep(1)

\* the clock stands still instead of advancing over the request and the sleep
ElapseStuck(w, request, sleep) == 0

\* time.time() - start_time after a request that took `request` seconds and
\* the sleep that ends the iteration
Elapse(w, request, sleep) == w + request + sleep

\* the requests the handler is run on carry an explicit timeout in
\* 0..MaxTimeout; the default of 600 s is 600 more rounds of the same loop
HandlerJobs == {j \in Jobs : j.timeout # None}

\* the templates the handler finds: the whole patch table, or one seed node less
HandlerTemplates ==
    {[n \in (PatchNodes \ absent) \cup {OtherNode} |-> TemplateNode(n, TRUE)] :
        absent \in {{}, {"92:67"}}}

\* the value of a missing "prompt_id": result.get("prompt_id") is None
PyNone == "None"

Init ==
    /\ pc = "validate"
    /\ job \in HandlerJobs
    /\ params = NoParams
    /\ template = NoWorkflow
    /\ workflow = NoWorkflow
    /\ workflow2 = NoWorkflow
    /\ audio_duration = None
    /\ outputs = <<>>
    /\ outputDir = {}
    /\ walkOrder = <<>>
    /\ video_data = None
    /\ HandlerIdle

\* the handler leaves through its except clause
RaiseRetrying(msg) ==
    /\ result' = ExceptionResult(msg)
    /\ pc' = "health"

\* except Exception as e: return {"error": str(e), ..., "elapsed_time": elapsed}
Raise(msg) ==
    /\ result' = ExceptionResult(msg)
    /\ pc' = "done"

\* return {"error": msg}
ReturnError(msg) ==
    /\ result' = ErrorResult(msg)
    /\ pc' = "done"

\* Validate with the required-field checks placed after the health request
ValidateAfterHealth ==
    /\ pc = "validate"
    /\ IF job.image = None \/ job.prompt = None
          THEN /\ httpCalls' = httpCalls \cup {"health"}
               /\ ReturnError(IF job.image = None THEN ErrMissingImage
                                                  ELSE ErrMissingPrompt)
               /\ UNCHANGED params
          ELSE /\ params' = BuildParams(job)
               /\ pc' = "health"
               /\ UNCHANGED <<result, httpCalls>>
    /\ UNCHANGED <<other, cur, switches, job, waited, healthOK, posts, inputDir, audio_duration,
                   template, workflow_path, workflow, workflow2, postOutcome, prompt_id, postedImage,
                   errorSeen, polledAfterError, outputs, outputDir, walkOrder,
                   video_data>>

\* handler, lines 500-547: the required fields, the mode, params
Validate ==
    /\ pc = "validate"
    /\ IF job.image = None
          THEN ReturnError(ErrMissingImage) /\ UNCHANGED params
          ELSE IF job.prompt = None
                  THEN ReturnError(ErrMissingPrompt) /\ UNCHANGED params
                  ELSE /\ params' = BuildParams(job)
                       /\ pc' = "health"
                       /\ UNCHANGED result
    /\ UNCHANGED <<other, cur, switches, job, waited, healthOK, httpCalls, posts, inputDir,
                   audio_duration, template, workflow_path, workflow, workflow2, postOutcome,
                   prompt_id, postedImage, errorSeen, polledAfterError, outputs, outputDir,
                   walkOrder, video_data>>

\* wait_for_comfyui: one iteration of the loop, or its end
HealthCheck ==
    /\ pc = "health"
    /\ IF waited < HealthTimeout
          THEN /\ httpCalls' = httpCalls \cup {"health"}
               /\ \E status \in {"200", "other", "exception"} :
                     IF status = "200"
                        THEN /\ healthOK' = TRUE
                             /\ pc' = "save_image"
                             /\ waited' = 0
                        ELSE /\ \E request \in {0, HealthReqTimeout} :
                                   waited' = Elapse(waited, request, HealthSleep)
                             /\ UNCHANGED <<healthOK, pc>>
               /\ UNCHANGED result
          ELSE /\ ReturnError(ErrUnavailable)
               /\ UNCHANGED <<httpCalls, healthOK, waited>>
    /\ UNCHANGED <<other, cur, switches, job, params, posts, inputDir, audio_duration, template, workflow_path,
                   workflow, workflow2, postOutcome, prompt_id, postedImage, errorSeen,
                   polledAfterError, outputs, outputDir, walkOrder, video_data>>

\* a write that keeps the file already under that name
WriteFileAppending(dir, name, bytes) ==
    dir \cup {[name |-> name, bytes |-> bytes]}

\* open(filepath, "wb").write(bytes): a file of that name is replaced
WriteFile(dir, name, bytes) ==
    {f \in dir : f.name # name} \cup {[name |-> name, bytes |-> bytes]}

\* open(filepath, "rb").read(): None when there is no such file
FileBytes(dir, name) ==
    IF \E f \in dir : f.name = name
        THEN Some((CHOOSE f \in dir : f.name = name).bytes)
        ELSE None

\* save_input_image(params["image"]); the write may fail
SaveInputImage ==
    /\ pc = "save_image"
    /\ \/ /\ inputDir' = WriteFile(inputDir, "input_image.png",
                                   B64Decode(StripDataUrl(params.image)))
          /\ pc' = IF has_custom_audio(job) THEN "save_audio" ELSE "load"
          /\ UNCHANGED result
       \/ /\ Raise("OSError")
          /\ UNCHANGED inputDir
    /\ UNCHANGED <<other, cur, switches, job, params, waited, healthOK, httpCalls, posts,
                   audio_duration, template, workflow_path, workflow, workflow2, postOutcome,
                   prompt_id, postedImage, errorSeen, polledAfterError, outputs, outputDir,
                   walkOrder, video_data>>

\* _, audio_duration = save_input_audio(job_input["audio"])
SaveInputAudio ==
    /\ pc = "save_audio"
    /\ \/ /\ inputDir' = WriteFile(inputDir, "input_audio.mp3",
                                   B64Decode(StripDataUrl(job.audio[1])))
          /\ \E d \in AudioDurations : audio_duration' = Some(d)
          /\ pc' = "load"
          /\ UNCHANGED result
       \/ /\ Raise("OSError")
          /\ UNCHANGED <<inputDir, audio_duration>>
    /\ UNCHANGED <<other, cur, switches, job, params, waited, healthOK, httpCalls, posts, template, workflow_path,
                   workflow, workflow2, postOutcome, prompt_id, postedImage, errorSeen,
                   polledAfterError, outputs, outputDir, walkOrder, video_data>>

\* load_workflow: workflow_path = f"/workflow_{workflow_name}.json", and
\* "/workflow.json" if that file does not exist
load_workflow_path(workflow_name, exists) ==
    IF ~exists THEN "/workflow.json"
    ELSE IF workflow_name = "custom_audio" THEN "/workflow_custom_audio.json"
    ELSE "/workflow_generated_audio.json"

\* workflow = load_workflow(mode); workflow = modify_workflow_*(workflow, params, ...)
LoadAndPatch ==
    /\ pc = "load"
    /\ \/ \E t \in HandlerTemplates, rnd \in RandSeeds, exists \in BOOLEAN :
             LET r == ModifyWorkflow(Mode(job), t, params,
                                     Get(audio_duration, 0), rnd)
             IN  /\ template' = t
                 /\ workflow_path' = load_workflow_path(Mode(job), exists)
                 /\ workflow' = r.workflow
                 /\ params' = r.params
                 /\ pc' = "submit"
                 /\ UNCHANGED result
       \/ /\ Raise("FileNotFoundError")
          /\ UNCHANGED <<template, workflow_path, workflow, params>>
    /\ UNCHANGED <<other, cur, switches, job, waited, healthOK, httpCalls, posts, inputDir,
                   audio_duration, workflow2, postOutcome, prompt_id, postedImage, errorSeen,
                   polledAfterError, outputs, outputDir, walkOrder, video_data>>

\* what POST /prompt can do: answer {"prompt_id": ...}, fail, answer text
\* that is not JSON, JSON that is no object, or an object without prompt_id
PostOutcomes == {"ok", "http_error", "not_json", "not_object", "no_prompt_id"}

\* prompt_id = queue_prompt(workflow)
QueuePrompt ==
    /\ pc = "submit"
    /\ posts' = posts + 1
    /\ httpCalls' = httpCalls \cup {"post"}
    /\ postedImage' = FileBytes(inputDir, "input_image.png")
    /\ \E outcome \in PostOutcomes :
          /\ postOutcome' = outcome
          /\ IF outcome \in {"ok", "no_prompt_id"}
                THEN /\ prompt_id' = IF outcome = "ok" THEN "p1" ELSE PyNone
                     /\ pc' = "poll"
                     /\ waited' = 0
                     /\ UNCHANGED result
                ELSE /\ Raise(outcome)
                     /\ UNCHANGED <<prompt_id, waited>>
    /\ UNCHANGED <<other, cur, switches, job, params, healthOK, inputDir, audio_duration, template, workflow_path,
                   workflow, workflow2, errorSeen, polledAfterError, outputs,
                   outputDir, walkOrder, video_data>>

\* what GET /history/{prompt_id} can do: fail (URLError), answer text that
\* json.loads rejects, answer a mapping without the prompt id, or answer an
\* entry with or without outputs, whose status_str is "success", "error" or
\* missing and whose messages are missing, [] or a non-empty list
HistoryResponses ==
    [kind : {"url_error", "bad_json", "no_entry"}, status_str : {"none"},
     messages : {"absent"}, has_outputs : {FALSE}]
    \cup
    [kind : {"entry"}, status_str : {"success", "error", "none"},
     messages : {"absent", "empty", "nonempty"}, has_outputs : BOOLEAN]

\* if prompt_id in history and status.get("status_str") == "error"
IsErrorEntry(resp, id) ==
    resp.kind = "entry" /\ id # PyNone /\ resp.status_str = "error"

\* one iteration of the loop of wait_for_completion (lines 377-410): "raise"
\* the RuntimeError, "return" the outputs, or "sleep" and go round again.
\* status.get("messages", [["Unknown error"]])[0] raises IndexError on [],
\* which `except Exception` logs and drops.
PollStep(resp, id) ==
    IF resp.kind \in {"url_error", "bad_json"} THEN "sleep"
    ELSE IF resp.kind = "no_entry" \/ id = PyNone THEN "sleep"
    ELSE IF resp.status_str = "error"
            THEN IF resp.messages = "empty" THEN "sleep" ELSE "raise"
    ELSE IF resp.has_outputs THEN "return"
    ELSE "sleep"

\* the outputs of a finished prompt, and what the server has then written
\* below /comfyui/output: nothing, the reported file, or another file
HandlerOutputs == <<[videos |-> <<DictItem(Some(Name_b_mp4), "")>>]>>
ServerWrites ==
    {{},
     {[dir |-> "", name |-> Name_b_mp4, by |-> "job"]},
     {[dir |-> "x", name |-> Name_a_webm, by |-> "job"]}}

\* the server saves files: a file already at a path is replaced
PutFiles(fs, written) ==
    {f \in fs : \A g \in written : ~(g.dir = f.dir /\ g.name = f.name)} \cup written

\* outputs = wait_for_completion(prompt_id, params["timeout"]): one
\* iteration of the loop, or the TimeoutError after it
WaitForCompletion ==
    /\ pc = "poll"
    /\ IF waited < params.timeout
          THEN /\ httpCalls' = httpCalls \cup {"poll"}
               /\ polledAfterError' = (polledAfterError \/ errorSeen # "no")
               /\ \E resp \in HistoryResponses :
                     /\ errorSeen' = IF IsErrorEntry(resp, prompt_id)
                                        THEN resp.messages ELSE errorSeen
                     /\ CASE PollStep(resp, prompt_id) = "raise" ->
                                /\ Raise(ErrWorkflow)
                                /\ UNCHANGED <<waited, outputs, outputDir>>
                          [] PollStep(resp, prompt_id) = "return" ->
                                /\ outputs' = HandlerOutputs
                                /\ \E written \in ServerWrites :
                                      outputDir' = PutFiles(outputDir, written)
                                /\ pc' = "extract"
                                /\ UNCHANGED <<waited, result>>
                          [] PollStep(resp, prompt_id) = "sleep" ->
                                /\ \E request \in {0, PollReqTimeout} :
                                      waited' = Elapse(waited, request, PollSleep)
                                /\ UNCHANGED <<pc, result, outputs, outputDir>>
          ELSE /\ Raise(ErrTimeout)
               /\ UNCHANGED <<httpCalls, polledAfterError, errorSeen, waited,
                              outputs, outputDir>>
    /\ UNCHANGED <<other, cur, switches, job, params, healthOK, posts, inputDir, audio_duration,
                   template, workflow_path, workflow, workflow2, postOutcome, prompt_id, postedImage,
                   walkOrder, video_data>>

\* video_data = get_output_video(outputs), then the result (lines 571-601);
\* the walk takes one of its orders
ExtractVideo ==
    /\ pc = "extract"
    /\ \E order \in WalkOrders :
          LET video == get_output_video(outputs, outputDir, order)
          IN  /\ walkOrder' = order
              /\ video_data' = video
              /\ result' = IF video = None
                              THEN ErrorResult(ErrNoVideo)
                              ELSE SuccessResult(video, params, Mode(job),
                                                 audio_duration)
    /\ pc' = "done"
    /\ UNCHANGED <<other, cur, switches, job, params, waited, healthOK, httpCalls, posts, inputDir,
                   audio_duration, template, workflow_path, workflow, workflow2, postOutcome,
                   prompt_id, postedImage, errorSeen, polledAfterError, outputs, outputDir>>

Next ==
    \/ Validate
    \/ HealthCheck
    \/ SaveInputImage
    \/ SaveInputAudio
    \/ LoadAndPatch
    \/ QueuePrompt
    \/ WaitForCompletion
    \/ ExtractVideo

Spec == Init /\ [][Next]_vars

\* the handler is one thread that keeps running until it returns
FairSpec == Spec /\ WF_vars(Next)

----------------------------------------------------------------------------
(* The claims about the handler.                                           *)

MissingRequired == job.image = None \/ job.prompt = None

\* C1: for every job whose input lacks `image` or lacks `prompt`, handler
\* returns an error result and, on that execution, performs no HTTP call
\* and no file write.
Thm_C1_ValidationNoSideEffects ==
    MissingRequired =>
        /\ httpCalls = {}
        /\ posts = 0
        /\ inputDir = {}
        /\ pc \in {"validate", "done"}
        /\ pc = "done" => ("error" \in result.keys /\ "video" \notin result.keys)

\* the handler has returned for a request with an image and no prompt
Wit_C1_ValidationNoSideEffects ==
    /\ pc = "done"
    /\ job.image # None
    /\ job.prompt = None
    /\ result.error = ErrMissingPrompt

\* C2 as stated: whenever a poll returns an entry for the submitted prompt id
\* with status_str == "error", the handler returns an execution error result
\* and issues no further poll, whatever the shape of `messages` (absent, [],
\* non-empty) and whether or not outputs are present.
Orig_C2_ErrorStopsPolling ==
    errorSeen # "no" =>
        /\ pc = "done"
        /\ result.error = ErrWorkflow
        /\ ~polledAfterError

\* C3: if the server never reports outputs or an error status for the
\* submitted prompt id, the loop of wait_for_completion stops once the
\* timeout has elapsed and the handler returns a timeout error result; it
\* never polls forever.
Thm_C3_PollingTerminates ==
    /\ (pc = "poll") ~> (pc = "done")
    /\ [](pc = "done" /\ prompt_id # "unset" /\ errorSeen = "no" /\ outputs = <<>>
             => (result.error = ErrTimeout /\ "elapsed_time" \in result.keys
                 /\ waited >= params.timeout))

\* the handler has returned after at least one poll that brought nothing
Wit_C3_PollingTerminates ==
    /\ pc = "done"
    /\ prompt_id = "p1"
    /\ "poll" \in httpCalls
    /\ errorSeen = "no"
    /\ outputs = <<>>
    /\ params.timeout > 0
    /\ result.error = ErrTimeout

SubmitFailures == {"http_error", "not_json", "not_object", "no_prompt_id"}

\* C4 as stated: if POST /prompt fails or its response is malformed (not
\* JSON, or JSON with no prompt_id), the job ends at once in a submission
\* error result and no GET /history is ever issued for it.
Orig_C4_SubmitFailureIsTerminal ==
    postOutcome \in SubmitFailures =>
        /\ pc = "done"
        /\ "error" \in result.keys
        /\ result.error \in SubmitFailures
        /\ "poll" \notin httpCalls

\* the error kinds (b)-(f) of a returned result
KindUnavailable == result.error = ErrUnavailable
KindSubmission == postOutcome \in SubmitFailures
KindExecution == result.error = ErrWorkflow
KindTimeout == result.error = ErrTimeout
KindMissingOutput == result.error = ErrNoVideo

\* C5 as stated: every error result of kind (b) server unavailable, (c)
\* submission error, (d) execution error, (e) completion timeout or (f)
\* missing output carries elapsed_time, as every success result does.
Orig_C5_ElapsedTimeInErrors ==
    pc = "done" =>
        /\ "video" \in result.keys => "elapsed_time" \in result.keys
        /\ ("error" \in result.keys /\
            (KindUnavailable \/ KindSubmission \/ KindExecution \/
             KindTimeout \/ KindMissingOutput))
              => "elapsed_time" \in result.keys

Rank(p) ==
    CASE p = "validate" -> 0
      [] p = "health" -> 1
      [] p = "save_image" -> 2
      [] p = "save_audio" -> 3
      [] p = "load" -> 4
      [] p = "submit" -> 5
      [] p = "poll" -> 6
      [] p = "extract" -> 7
      [] p = "done" -> 8

\* C6: within one job the stages occur in the fixed order health check,
\* input file write, template load and patch, POST /prompt, history polling,
\* artifact lookup, and never go back: no input file is written and no POST
\* is issued unless a health check returned 200 earlier, POST /prompt is
\* issued at most once, and after a failed health wait, a failed submit, an
\* execution error or a timeout no earlier stage is re-entered.
Thm_C6_LinearStages ==
    /\ []((inputDir # {} \/ posts > 0 \/ workflow # NoWorkflow) => healthOK)
    /\ [](posts <= 1)
    /\ []("post" \in httpCalls => inputDir # {} /\ workflow # NoWorkflow)
    /\ []("poll" \in httpCalls => posts = 1)
    /\ [](pc = "extract" => "poll" \in httpCalls)
    /\ [][Rank(pc') >= Rank(pc)]_vars
    /\ [][pc = "done" => UNCHANGED <<httpCalls, posts, inputDir, result>>]_vars

\* the handler has returned from a failed submit that followed a saved image
Wit_C6_LinearStages ==
    /\ pc = "done"
    /\ healthOK
    /\ inputDir # {}
    /\ posts = 1
    /\ postOutcome = "http_error"

\* C7: when the request's seed is absent or -1, the seed echoed in the
\* success result is an integer in 0..2^31-1 and is the value written to
\* noise_seed of every seed node (92:11, 92:67) of the submitted graph; any
\* other explicit seed is written to those nodes and echoed as it is.
Thm_C7_SeedEchoed ==
    (pc = "done" /\ "video" \in result.keys) =>
        /\ result.seed # None
        /\ IF job.seed = None \/ job.seed = Some(-1)
              THEN result.seed[1] \in 0..SeedMax
              ELSE result.seed = job.seed
        /\ \A n \in SeedNodes \cap DOMAIN workflow :
              workflow[n].inputs["noise_seed"] = result.seed[1]

\* a success result for a request with seed -1 whose graph has both seed nodes
Wit_C7_SeedEchoed ==
    /\ pc = "done"
    /\ "video" \in result.keys
    /\ job.seed = Some(-1)
    /\ SeedNodes \subseteq DOMAIN workflow
    /\ posts = 1

----------------------------------------------------------------------------
(* SeqSpec: the worker started by runpod.serverless.start calls handler    *)
(* for one job after another.  /comfyui/input and /comfyui/output outlive  *)
(* a job; every local of handler starts afresh.  A file of the output tree *)
(* that a finished job left behind is marked "earlier".                    *)

\* the requests of the sequence: with and without the required fields, the
\* audio field absent, empty and filled, a drawn and an explicit seed
SeqJobs ==
    {j \in Jobs : /\ j.image \in {None, Some(B64Encode("imgA"))}
                  /\ j.seed \in {Some(-1), Some(42)}
                  /\ j.timeout = Some(1)}

InitSeq ==
    /\ pc = "validate"
    /\ job \in SeqJobs
    /\ params = NoParams
    /\ template = NoWorkflow
    /\ workflow = NoWorkflow
    /\ workflow2 = NoWorkflow
    /\ audio_duration = None
    /\ outputs = <<>>
    /\ outputDir = {}
    /\ walkOrder = <<>>
    /\ video_data = None
    /\ HandlerIdle

\* the files of the output tree once the job that may have written them is over
LeftBehind(fs) == {[f EXCEPT !.by = "earlier"] : f \in fs}

\* handler has returned; the worker calls handler(job) for the next job
NextJob ==
    /\ pc = "done"
    /\ \E j \in SeqJobs :
          LET entry == EntryLocals(j)
          IN  /\ pc' = entry.pc
              /\ job' = entry.job
              /\ params' = entry.params
              /\ waited' = entry.waited
              /\ healthOK' = entry.healthOK
              /\ httpCalls' = entry.httpCalls
              /\ posts' = entry.posts
              /\ audio_duration' = entry.audio_duration
              /\ template' = entry.template
              /\ workflow_path' = entry.workflow_path
              /\ workflow' = entry.workflow
              /\ postOutcome' = entry.postOutcome
              /\ prompt_id' = entry.prompt_id
              /\ postedImage' = entry.postedImage
              /\ errorSeen' = entry.errorSeen
              /\ polledAfterError' = entry.polledAfterError
              /\ outputs' = entry.outputs
              /\ walkOrder' = entry.walkOrder
              /\ video_data' = entry.video_data
              /\ result' = entry.result
    /\ outputDir' = LeftBehind(outputDir)
    /\ UNCHANGED <<inputDir, workflow2, other, cur, switches>>

NextSeq == Next \/ NextJob

SeqSpec == InitSeq /\ [][NextSeq]_vars

\* this job has saved an audio file / called load_workflow / patched
AudioSaved == audio_duration # None
Loaded == workflow # NoWorkflow
PatchedCustom ==
    \A n \in DOMAIN workflow :
        n = "92:114" => workflow[n].inputs["audio"] = "input_audio.mp3"
PatchedGenerated ==
    \A n \in DOMAIN workflow :
        n = "92:114" => workflow[n].inputs["audio"] = "template"

\* C11 as stated: the custom-audio variant (audio file saved,
\* workflow_custom_audio loaded, result mode "custom_audio") is used exactly
\* when the request contains an `audio` field, and the generated-audio
\* variant otherwise.
Orig_C11_ModeByAudioKey ==
    /\ pc \in {"load", "submit", "poll", "extract"} =>
          (AudioSaved <=> job.audio # None)
    /\ Loaded =>
          workflow_path = IF job.audio # None THEN "/workflow_custom_audio.json"
                                             ELSE "/workflow_generated_audio.json"
    /\ (pc = "done" /\ "video" \in result.keys) =>
          result.mode = IF job.audio # None THEN "custom_audio"
                                           ELSE "generated_audio"

AudioSupplied == job.audio # None /\ job.audio[1] # B64Encode("")

\* C11 as amended: the custom-audio variant (audio file saved by this job,
\* load_workflow("custom_audio") called, which opens
\* /workflow_custom_audio.json or, if that file is missing, /workflow.json,
\* the custom patch applied, result mode "custom_audio") is used exactly
\* when the request has an `audio` field whose value is not empty, and the
\* generated-audio variant otherwise; nothing else of the request and no
\* earlier job changes that.
Thm_C11_ModeByAudioValue ==
    /\ pc \in {"load", "submit", "poll", "extract"} =>
          (AudioSaved <=> AudioSupplied)
    /\ ~AudioSupplied => ~AudioSaved
    /\ Loaded =>
          /\ workflow_path \in
                {"/workflow.json",
                 IF AudioSupplied THEN "/workflow_custom_audio.json"
                                  ELSE "/workflow_generated_audio.json"}
          /\ IF AudioSupplied THEN PatchedCustom ELSE PatchedGenerated
    /\ (pc = "done" /\ "video" \in result.keys) =>
          result.mode = IF AudioSupplied THEN "custom_audio"
                                         ELSE "generated_audio"

\* a success result in generated-audio mode for a request whose audio field
\* is empty, handled after a job that saved an audio file
Wit_C11_ModeByAudioValue ==
    /\ pc = "done"
    /\ "video" \in result.keys
    /\ job.audio = Some(B64Encode(""))
    /\ result.mode = "generated_audio"
    /\ "92:114" \in DOMAIN workflow
    /\ \E f \in inputDir : f.name = "input_audio.mp3"

\* the file whose content a success result carries
ReturnedFile == B64Decode(result.video[1])

\* C13 as stated: over any sequence of jobs handled one at a time, the video
\* returned in a success result is always an artifact produced by that job's
\* own submission; a file left in the output directory by an earlier job is
\* never returned as the result of a later job.
Orig_C13_OwnArtifact ==
    (pc = "done" /\ "video" \in result.keys) => ReturnedFile.by = "job"

----------------------------------------------------------------------------
(* ConcSpec: two executions of handler, A and B, on one worker.  The       *)
(* variables hold the locals of the running execution and `other` those of *)
(* the execution that waits; /comfyui/input and /comfyui/output are shared.*)
(* The scheduler may switch between any two steps.                         *)

JobA == [image |-> Some(B64Encode("imgA")), prompt |-> Some("a cat"),
         audio |-> None, seed |-> Some(42), timeout |-> Some(1)]
JobB == [image |-> Some(DataUrl(B64Encode("imgB"))), prompt |-> Some("a cat"),
         audio |-> Some(B64Encode("audA")), seed |-> Some(42),
         timeout |-> Some(1)]

InitConc ==
    /\ pc = "validate"
    /\ job = JobA
    /\ other = EntryLocals(JobB)
    /\ cur = "A"
    /\ switches = 0
    /\ params = NoParams
    /\ waited = 0
    /\ healthOK = FALSE
    /\ httpCalls = {}
    /\ posts = 0
    /\ inputDir = {}
    /\ audio_duration = None
    /\ template = NoWorkflow
    /\ workflow_path = ""
    /\ workflow = NoWorkflow
    /\ workflow2 = NoWorkflow
    /\ postOutcome = "none"
    /\ prompt_id = "unset"
    /\ postedImage = None
    /\ errorSeen = "no"
    /\ polledAfterError = FALSE
    /\ outputs = <<>>
    /\ outputDir = {}
    /\ walkOrder = <<>>
    /\ video_data = None
    /\ result = NoResult

\* the running execution is suspended and the waiting one resumes
Switch ==
    /\ switches < MaxSwitches
    /\ other.pc # "done"
    /\ other' = Locals(pc, job, params, waited, healthOK, httpCalls, posts,
                       audio_duration, template, workflow_path, workflow,
                       postOutcome, prompt_id, postedImage, errorSeen,
                       polledAfterError, outputs, walkOrder, video_data, result)
    /\ pc' = other.pc
    /\ job' = other.job
    /\ params' = other.params
    /\ waited' = other.waited
    /\ healthOK' = other.healthOK
    /\ httpCalls' = other.httpCalls
    /\ posts' = other.posts
    /\ audio_duration' = other.audio_duration
    /\ template' = other.template
    /\ workflow_path' = other.workflow_path
    /\ workflow' = other.workflow
    /\ postOutcome' = other.postOutcome
    /\ prompt_id' = other.prompt_id
    /\ postedImage' = other.postedImage
    /\ errorSeen' = other.errorSeen
    /\ polledAfterError' = other.polledAfterError
    /\ outputs' = other.outputs
    /\ walkOrder' = other.walkOrder
    /\ video_data' = other.video_data
    /\ result' = other.result
    /\ cur' = IF cur = "A" THEN "B" ELSE "A"
    /\ switches' = switches + 1
    /\ UNCHANGED <<inputDir, outputDir, workflow2>>

NextConc == Next \/ Switch

ConcSpec == InitConc /\ [][NextConc]_vars

\* the bytes save_input_image writes for a request
ImageBytes(job_input) == B64Decode(StripDataUrl(job_input.image[1]))

\* C12: when two jobs run concurrently on the same instance, input files
\* are written under the fixed names input_image.png and input_audio.mp3,
\* a write replacing whatever file has that name, and every submitted
\* workflow references input_image.png: what the file holds at the POST is
\* the image of whichever job wrote last, so job A can submit a workflow
\* that references the file holding job B's image.
Thm_C12_SharedInputFiles ==
    /\ \A f \in inputDir : f.name \in {"input_image.png", "input_audio.mp3"}
    /\ \A f, g \in inputDir : f.name = g.name => f = g
    /\ \A f \in inputDir :
          f.name = "input_image.png" =>
              f.bytes \in {ImageBytes(JobA), ImageBytes(JobB)}
    /\ posts = 1 =>
          /\ workflow["98"].inputs["image"] = "input_image.png"
          /\ postedImage \in {Some(ImageBytes(job)), Some(ImageBytes(other.job))}
          /\ (switches = 0 => postedImage = Some(ImageBytes(job)))

\* job A has written its image, job B has overwritten it, and job A has
\* submitted its workflow while the file held job B's image
Wit_C12_SharedInputFiles ==
    /\ cur = "A"
    /\ posts = 1
    /\ job = JobA
    /\ workflow["98"].inputs["image"] = "input_image.png"
    /\ postedImage = Some(ImageBytes(JobB))
    /\ ImageBytes(JobB) # ImageBytes(JobA)
    /\ other.pc \in {"save_audio", "load", "submit", "poll", "extract"}

====
